---- MODULE Spec2Model ----
(***************************************************************************)
(* A model of classifier/finetune.py: the label and text preprocessing,   *)
(* the metrics aggregation, get_max_steps, the custom-loss trainer and    *)
(* the run of main() through the training loop it configures.             *)
(*                                                                         *)
(* Python values are modelled as follows.  A raw label is a record         *)
(* [py |-> <python type>, v |-> <repr>], so that the string "True", the    *)
(* boolean True and the integer 1 are three different values.  A float is  *)
(* a record holding a fraction, a dict a record holding a function.  A     *)
(* result that may be an exception is a record with a field `raised`.      *)
(* A variable of a part of the program that a specification does not run   *)
(* holds None.                                                             *)
(***************************************************************************)
EXTENDS Integers, Sequences, FiniteSets, TLC

(***************************************************************************)
(* Bounds of the model.                                                    *)
(***************************************************************************)
MaxLabelBatch == 3      \* longest label batch handed to convert_labels
MaxTextWords  == 513    \* longest text, in words (beyond model_max_length)
MaxEvalBatch  == 3      \* most examples in one (logits, labels) pair
MaxLines      == 6      \* most lines of the file read by get_max_steps
MaxEpochsArg  == 4      \* largest num_train_epochs given to get_max_steps
MaxBatchArg   == 4      \* largest batch_size given to get_max_steps
MaxTrainRows  == 17     \* most rows of the train split in a run of main
MaxValRows    == 2      \* most rows of the val split in a run of main

(***************************************************************************)
(* Constants of main().                                                    *)
(***************************************************************************)
num_labels       == 2
num_train_epochs == 50
batch_size       == 16
model_max_length == 512

VARIABLES
  examples,       \* convert_labels: the batch {"label": [...]} it is given
  converted,      \* convert_labels: what the call produced
  texts,          \* tokenize: the batch examples["text"]
  encoding,       \* tokenize: what the call produced
  pred_eval,      \* compute_metrics: the (logits, labels) pair
  metric_calls,   \* compute_metrics: the metric.compute calls made
  metrics_out,    \* compute_metrics: what the call returned
  train_file,     \* get_max_steps: number of lines of the file, epochs, batch
  f_pos,          \* get_max_steps: lines consumed so far by the for loop
  n_examples,     \* get_max_steps: the loop variable (bound or not)
  steps_out,      \* get_max_steps: what the call produced
  inputs,         \* compute_loss: the caller's inputs mapping
  return_outputs, \* compute_loss: the flag
  model_calls,    \* compute_loss: the arguments of each model(**inputs) call
  loss_out,       \* compute_loss: what the call produced
  pc,             \* main: position in the script
  dataset,        \* main: the DatasetDict (train, val)
  trainer,        \* main: the trainer object and its training state
  run_log         \* main: what the run has done so far

vars == <<examples, converted, texts, encoding, pred_eval, metric_calls,
          metrics_out, train_file, f_pos, n_examples, steps_out, inputs,
          return_outputs, model_calls, loss_out, pc, dataset, trainer, run_log>>

labelVars   == <<examples, converted>>
tokVars     == <<texts, encoding>>
metricVars  == <<pred_eval, metric_calls, metrics_out>>
stepsVars   == <<train_file, f_pos, n_examples, steps_out>>
lossVars    == <<inputs, return_outputs, model_calls, loss_out>>
mainVars    == <<pc, dataset, trainer, run_log>>

None == [py |-> "NoneType", v |-> "None"]

Repeat(x, n)     == [i \in 1..n |-> x]
Min(a, b)        == IF a < b THEN a ELSE b

(***************************************************************************)
(* Labels: convert_labels, id2label, label2id.                             *)
(***************************************************************************)
PyStr(s)  == [py |-> "str",  v |-> s]
PyInt(s)  == [py |-> "int",  v |-> s]
PyBool(s) == [py |-> "bool", v |-> s]

GoodLabels == {PyStr("True"), PyStr("False")}
BadLabels  == {PyStr("true"), PyInt("0"), PyInt("1"), PyBool("True"), PyBool("False"), None}
RawLabels  == GoodLabels \cup BadLabels

id2label == [i \in {0, 1} |-> IF i = 0 THEN "False" ELSE "True"]
label2id == [s \in {"False", "True"} |-> IF s = "False" THEN 0 ELSE 1]

\* The dict literal {"True": 1, "False": 0} of convert_labels, as a set of
\* (key, value) items.
LabelDictSwapped == {<<PyStr("True"), 0>>, <<PyStr("False"), 1>>}
LabelDict == {<<PyStr("True"), 1>>, <<PyStr("False"), 0>>}

HasKey(d, k) == \E it \in d : it[1] = k
Lookup(d, k) == (CHOOSE it \in d : it[1] = k)[2]

\* A lookup that falls back to 0 on a missing key instead of raising.
convert_labels_get(ex) ==
  [raised |-> "none",
   value  |-> [label |-> [i \in 1..Len(ex.label) |->
                 IF HasKey(LabelDict, ex.label[i]) THEN Lookup(LabelDict, ex.label[i]) ELSE 0]]]

\* convert_labels(examples): the list comprehension looks every label up in
\* the dict; the first label that is not a key raises KeyError and no value
\* is returned.
convert_labels(ex) ==
  IF \A i \in 1..Len(ex.label) : HasKey(LabelDict, ex.label[i])
  THEN [raised |-> "none",
        value  |-> [label |-> [i \in 1..Len(ex.label) |-> Lookup(LabelDict, ex.label[i])]]]
  ELSE [raised |-> "KeyError"]

(***************************************************************************)
(* Text: the tokenizer call of tokenize.                                   *)
(***************************************************************************)
PAD == 0
UNK == 100
CLS == 101
SEP == 102

WordList == <<"a", "b", "qzx">>
\* Vocabulary lookup of one word; a word outside the vocabulary is [UNK].
ConvertTokenToId(w) == IF w = "a" THEN 1037 ELSE IF w = "b" THEN 1038 ELSE UNK

\* tokenizer(text, truncation=..., padding=...) for one text: ids of the
\* words, cut to leave room for [CLS] and [SEP] when truncating, the special
\* tokens added, then padded to model_max_length when padding="max_length".
Encode(text, truncation, padding) ==
  LET ids  == [i \in 1..Len(text) |-> ConvertTokenToId(text[i])]
      room == model_max_length - 2
      kept == IF truncation /\ Len(ids) > room THEN SubSeq(ids, 1, room) ELSE ids
      full == <<CLS>> \o kept \o <<SEP>>
      npad == IF padding = "max_length" /\ Len(full) < model_max_length
              THEN model_max_length - Len(full) ELSE 0
  IN [input_ids      |-> full \o Repeat(PAD, npad),
      attention_mask |-> Repeat(1, Len(full)) \o Repeat(0, npad)]

\* padding="longest": pad every text of the batch to the longest of them.
PadTo(enc, n) ==
  [input_ids      |-> enc.input_ids \o Repeat(PAD, n - Len(enc.input_ids)),
   attention_mask |-> enc.attention_mask \o Repeat(0, n - Len(enc.attention_mask))]

Tokenizer(batch, truncation, padding) ==
  LET encs == [i \in 1..Len(batch) |-> Encode(batch[i], truncation, padding)]
      longest == CHOOSE n \in {Len(encs[i].input_ids) : i \in 1..Len(batch)} \cup {0} :
                   \A i \in 1..Len(batch) : Len(encs[i].input_ids) <= n
      out  == IF padding = "longest"
              THEN [i \in 1..Len(batch) |-> PadTo(encs[i], longest)]
              ELSE encs
  IN [input_ids      |-> [i \in 1..Len(batch) |-> out[i].input_ids],
      attention_mask |-> [i \in 1..Len(batch) |-> out[i].attention_mask]]

tokenizePadLongest(ex) == Tokenizer(ex.text, TRUE, "longest")
\* tokenize(examples)
tokenize(ex) == Tokenizer(ex.text, TRUE, "max_length")

(***************************************************************************)
(* Metrics: the metrics table and compute_metrics.                         *)
(***************************************************************************)
PyFloat(n, d) == [py |-> "float", num |-> n, den |-> d]
PyDict(f)     == [py |-> "dict", items |-> f]

\* The keys of the module-level `metrics` dict, in insertion order.
MetricNamesNoRecall == <<"accuracy", "f1", "precision">>
MetricNames == <<"accuracy", "f1", "precision", "recall">>

\* zero_division of the scikit-learn scores: 0.0
Ratio(n, d) == IF d = 0 THEN PyFloat(0, 1) ELSE PyFloat(n, d)

\* The score each loaded metric computes (binary average, positive label 1).
Score(name, p, r) ==
  LET n  == Len(p)
      tp == Cardinality({i \in 1..n : p[i] = 1 /\ r[i] = 1})
      fp == Cardinality({i \in 1..n : p[i] = 1 /\ r[i] = 0})
      fn == Cardinality({i \in 1..n : p[i] = 0 /\ r[i] = 1})
      ok == Cardinality({i \in 1..n : p[i] = r[i]})
  IN CASE name = "accuracy"  -> Ratio(ok, n)
       [] name = "f1"        -> Ratio(2 * tp, 2 * tp + fp + fn)
       [] name = "precision" -> Ratio(tp, tp + fp)
       [] name = "recall"    -> Ratio(tp, tp + fn)

\* metric.compute(predictions=..., references=...) of an `evaluate` metric:
\* a dict holding the score under the metric's own name; ValueError when the
\* numbers of predictions and references differ.
MetricCompute(name, p, r) ==
  IF Len(p) # Len(r) THEN [raised |-> "ValueError"]
  ELSE [raised |-> "none", value |-> PyDict(name :> Score(name, p, r))]

\* np.argmax over one row: the first index (from 0) holding the maximum.
ArgMaxLast(row) ==
  CHOOSE i \in 0..(Len(row) - 1) :
    /\ \A j \in 0..(Len(row) - 1) : row[j + 1] <= row[i + 1]
    /\ \A j \in 0..(Len(row) - 1) : row[j + 1] = row[i + 1] => j <= i
ArgMax(row) ==
  CHOOSE i \in 0..(Len(row) - 1) :
    /\ \A j \in 0..(Len(row) - 1) : row[j + 1] <= row[i + 1]
    /\ \A j \in 0..(i - 1) : row[j + 1] < row[i + 1]

\* compute_metrics(pred_eval): [calls, out], where calls are the
\* metric.compute calls made, in order, and out is the returned dict or the
\* exception of the first call that raised.
compute_metrics(pe) ==
  LET logits      == pe[1]
      labels      == pe[2]
      predictions == [i \in 1..Len(logits) |-> ArgMax(logits[i])]
      res         == [i \in 1..Len(MetricNames) |->
                        MetricCompute(MetricNames[i], predictions, labels)]
      bad         == {i \in 1..Len(MetricNames) : res[i].raised # "none"}
      ncalls      == IF bad = {} THEN Len(MetricNames)
                     ELSE CHOOSE i \in bad : \A j \in bad : i <= j
  IN [calls |-> [i \in 1..ncalls |-> [name        |-> MetricNames[i],
                                      predictions |-> predictions,
                                      references  |-> labels]],
      out   |-> IF bad = {}
                THEN [raised |-> "none",
                      value  |-> PyDict([k \in {MetricNames[i] : i \in 1..Len(MetricNames)} |->
                                   res[CHOOSE i \in 1..Len(MetricNames) : MetricNames[i] = k].value])]
                ELSE [raised |-> res[ncalls].raised]]

(***************************************************************************)
(* get_max_steps.                                                          *)
(***************************************************************************)
\* The return expression, n_examples being bound: `*` and `//` associate to
\* the left.
MaxStepsDivideFirst(n, epochs, batch) == (n + 1) * (epochs \div batch)
MaxStepsExpr(n, epochs, batch) == ((n + 1) * epochs) \div batch

(***************************************************************************)
(* TrainerWithCustomLoss.compute_loss.                                     *)
(***************************************************************************)
\* The model and the loss function are opaque: their results are terms
\* naming the function and its arguments.
ModelCall(kwargs)          == [logits |-> <<"model.logits", kwargs>>]
LossFn(fn, logits, labels) == <<fn, logits, labels>>

\* dict.pop(key) on a dict held as a function: the dict without the key.
Without(d, k) == [x \in (DOMAIN d) \ {k} |-> d[x]]

\* compute_loss(model, inputs, return_outputs) with self.compute_loss_fn = fn:
\* [inputs, calls, out], the caller's mapping afterwards, the model calls
\* made and the value returned or exception raised.
compute_loss_keep_labels(fn, inp, ret) ==
  IF "labels" \notin DOMAIN inp
  THEN [inputs |-> inp, calls |-> <<>>, out |-> [raised |-> "KeyError"]]
  ELSE LET labels  == inp["labels"]
           outputs == ModelCall(inp)
           loss    == LossFn(fn, outputs.logits, labels)
       IN [inputs |-> inp,
           calls  |-> <<inp>>,
           out    |-> IF ret THEN [raised |-> "none", kind |-> "tuple", loss |-> loss, outputs |-> outputs]
                      ELSE [raised |-> "none", kind |-> "loss", loss |-> loss]]
compute_loss(fn, inp, ret) ==
  IF "labels" \notin DOMAIN inp
  THEN [inputs |-> inp, calls |-> <<>>, out |-> [raised |-> "KeyError"]]
  ELSE LET labels  == inp["labels"]
           rest    == Without(inp, "labels")
           outputs == ModelCall(rest)
           loss    == LossFn(fn, outputs.logits, labels)
       IN [inputs |-> rest,
           calls  |-> <<rest>>,
           out    |-> IF ret THEN [raised |-> "none", kind |-> "tuple", loss |-> loss, outputs |-> outputs]
                      ELSE [raised |-> "none", kind |-> "loss", loss |-> loss]]

(***************************************************************************)
(* convert_labels on its own.                                              *)
(***************************************************************************)
SeqsUpTo(S, n) == UNION {[1..k -> S] : k \in 0..n}

IdleLabels  == examples = None /\ converted = None
IdleTok     == texts = None /\ encoding = None
IdleMetrics == pred_eval = None /\ metric_calls = None /\ metrics_out = None
IdleSteps   == train_file = None /\ f_pos = None /\ n_examples = None /\ steps_out = None
IdleLoss    == inputs = None /\ return_outputs = None /\ model_calls = None /\ loss_out = None
IdleMain    == pc = None /\ dataset = None /\ trainer = None /\ run_log = None

InitLabels ==
  /\ examples \in {[label |-> s] : s \in SeqsUpTo(RawLabels, MaxLabelBatch)}
  /\ converted = None
  /\ IdleTok /\ IdleMetrics /\ IdleSteps /\ IdleLoss /\ IdleMain

ConvertLabels ==
  /\ converted = None
  /\ converted' = convert_labels(examples)
  /\ UNCHANGED <<examples, tokVars, metricVars, stepsVars, lossVars, mainVars>>

SpecLabels == InitLabels /\ [][ConvertLabels]_vars

(***************************************************************************)
(* tokenize on its own.                                                    *)
(***************************************************************************)
\* The text of n words that starts at word p of WordList and cycles.
TextOf(n, p) == [i \in 1..n |-> WordList[((i + p) % Len(WordList)) + 1]]

TextBatches ==
  {<<TextOf(n, p)>> : n \in 0..MaxTextWords, p \in 0..(Len(WordList) - 1)}
  \cup {<<TextOf(n, 0), TextOf(m, 1)>> : n \in 0..MaxTextWords, m \in {0, 3}}

InitTokenize ==
  /\ texts \in TextBatches
  /\ encoding = None
  /\ IdleLabels /\ IdleMetrics /\ IdleSteps /\ IdleLoss /\ IdleMain

Tokenize ==
  /\ encoding = None
  /\ encoding' = tokenize([text |-> texts])
  /\ UNCHANGED <<texts, labelVars, metricVars, stepsVars, lossVars, mainVars>>

SpecTokenize == InitTokenize /\ [][Tokenize]_vars

(***************************************************************************)
(* compute_metrics on its own.                                             *)
(***************************************************************************)
LogitValues == {0, 1}
LogitRows   == [1..num_labels -> LogitValues]
ClassIds    == 0..(num_labels - 1)

InitMetrics ==
  /\ pred_eval \in {<<lg, lb>> : lg \in UNION {[1..k -> LogitRows] : k \in 1..MaxEvalBatch},
                                 lb \in UNION {[1..k -> ClassIds] : k \in 1..MaxEvalBatch}}
  /\ metric_calls = None
  /\ metrics_out = None
  /\ IdleLabels /\ IdleTok /\ IdleSteps /\ IdleLoss /\ IdleMain

ComputeMetrics ==
  /\ metrics_out = None
  /\ LET r == compute_metrics(pred_eval)
     IN /\ metric_calls' = r.calls
        /\ metrics_out' = r.out
  /\ UNCHANGED <<pred_eval, labelVars, tokVars, stepsVars, lossVars, mainVars>>

SpecMetrics == InitMetrics /\ [][ComputeMetrics]_vars

(***************************************************************************)
(* get_max_steps on its own: the for loop over the lines, then the return. *)
(***************************************************************************)
InitSteps ==
  /\ train_file \in [lines : 0..MaxLines, num_train_epochs : 1..MaxEpochsArg,
                     batch_size : 1..MaxBatchArg]
  /\ f_pos = 0
  /\ n_examples = [bound |-> FALSE]
  /\ steps_out = None
  /\ IdleLabels /\ IdleTok /\ IdleMetrics /\ IdleLoss /\ IdleMain

\* for n_examples, _ in enumerate(f): pass
StepsReadLine ==
  /\ steps_out = None
  /\ f_pos < train_file.lines
  /\ n_examples' = [bound |-> TRUE, val |-> f_pos]
  /\ f_pos' = f_pos + 1
  /\ UNCHANGED <<train_file, steps_out, labelVars, tokVars, metricVars, lossVars, mainVars>>

\* return (n_examples + 1) * num_train_epochs // batch_size
StepsReturn ==
  /\ steps_out = None
  /\ f_pos = train_file.lines
  /\ steps_out' = IF n_examples.bound
                  THEN [raised |-> "none",
                        value  |-> MaxStepsExpr(n_examples.val, train_file.num_train_epochs,
                                                train_file.batch_size)]
                  ELSE [raised |-> "UnboundLocalError"]
  /\ UNCHANGED <<train_file, f_pos, n_examples, labelVars, tokVars, metricVars, lossVars, mainVars>>

NextSteps == StepsReadLine \/ StepsReturn
SpecSteps == InitSteps /\ [][NextSteps]_vars

(***************************************************************************)
(* TrainerWithCustomLoss.compute_loss on its own.                          *)
(***************************************************************************)
label_loss_weights == <<PyFloat(1, 1), PyFloat(10, 1)>>
\* torch.nn.CrossEntropyLoss(weight=label_loss_weights, reduction="mean")
WeightedCrossEntropy ==
  [fn |-> "CrossEntropyLoss", weight |-> label_loss_weights, reduction |-> "mean"]

\* The mappings a caller may hand to compute_loss: any subset of the three
\* columns, each with one of a few batch values (choice 0: column absent).
IdsChoices    == <<<< <<CLS, SEP>> >>, << <<CLS, UNK, SEP>> >>, << <<CLS, SEP>>, <<CLS, SEP>> >>>>
MaskChoices   == <<<< <<1, 1>> >>, << <<1, 1, 1>> >>, << <<1, 1>>, <<1, 1>> >>>>
LabelsChoices == <<<<0>>, <<1>>, <<0, 1>>>>
EmptyDict     == [k \in {} |-> None]
Column(k, choices, i) == IF i = 0 THEN EmptyDict ELSE k :> choices[i]
InputMappings ==
  {Column("input_ids", IdsChoices, a) @@ Column("attention_mask", MaskChoices, b)
     @@ Column("labels", LabelsChoices, c) :
     a \in 0..Len(IdsChoices), b \in 0..Len(MaskChoices), c \in 0..Len(LabelsChoices)}

InitLoss ==
  /\ inputs \in InputMappings
  /\ return_outputs \in BOOLEAN
  /\ model_calls = <<>>
  /\ loss_out = None
  /\ IdleLabels /\ IdleTok /\ IdleMetrics /\ IdleSteps /\ IdleMain

ComputeLoss ==
  /\ loss_out = None
  /\ LET r == compute_loss(WeightedCrossEntropy, inputs, return_outputs)
     IN /\ inputs' = r.inputs
        /\ model_calls' = model_calls \o r.calls
        /\ loss_out' = r.out
  /\ UNCHANGED <<return_outputs, labelVars, tokVars, metricVars, stepsVars, mainVars>>

SpecLoss == InitLoss /\ [][ComputeLoss]_vars

(***************************************************************************)
(* main(): the dataset maps, the trainer and the training loop that        *)
(* trainer.train() runs under the TrainingArguments main gives it.         *)
(***************************************************************************)
\* Defaults of TrainingArguments that main leaves alone.
logging_steps == 500
save_steps    == 500

\* The arguments main passes (evaluation_strategy, save_strategy) and the
\* trainer class it instantiates.
evaluation_strategy_no == "no"
evaluation_strategy == "epoch"
save_strategy       == "epoch"
TrainerClassCustom == "TrainerWithCustomLoss"
TrainerClass       == "Trainer"

\* The loss of the model's own classification head: unweighted cross entropy.
UnweightedCrossEntropy ==
  [fn |-> "CrossEntropyLoss", weight |-> <<>>, reduction |-> "mean"]

\* The rows of one split of the loaded dataset: n rows of short texts.  The
\* label column has one type in both files: strings ("True" and "False"
\* alternating, one row possibly misspelt), or already integers, or JSON
\* booleans, or null.
LabelKinds  == {"str", "int", "bool", "null"}
BadRowPlace == {"nowhere", "first", "last"}
LabelAt(kind, i, bad) ==
  CASE kind = "str"  -> IF bad THEN PyStr("true")
                        ELSE IF i % 2 = 0 THEN PyStr("True") ELSE PyStr("False")
    [] kind = "int"  -> IF i % 2 = 0 THEN PyInt("1") ELSE PyInt("0")
    [] kind = "bool" -> IF i % 2 = 0 THEN PyBool("True") ELSE PyBool("False")
    [] kind = "null" -> None
Rows(n, kind, place) ==
  [i \in 1..n |-> [text  |-> TextOf(i % 3, i),
                   label |-> LabelAt(kind, i, \/ (place = "first" /\ i = 1)
                                              \/ (place = "last" /\ i = n))]]

TrainSizes == {1, 2} \cup (batch_size..MaxTrainRows)
ValSizes   == 1..MaxValRows

InitMain ==
  /\ pc = "convert_labels"
  /\ dataset \in {[train |-> Rows(n, kind, pt), val |-> Rows(m, kind, pv)] :
                    n \in TrainSizes, m \in ValSizes, kind \in LabelKinds,
                    pt \in BadRowPlace, pv \in BadRowPlace}
  /\ trainer = None
  /\ run_log = [exception |-> "none", tokenize_calls |-> 0, train_calls |-> 0,
                evals |-> <<>>, saves |-> <<>>, compute_metrics_calls |-> 0,
                last_metrics |-> None, default_loss_calls |-> 0,
                custom_loss_calls |-> 0, loss_weights |-> {}]
  /\ IdleLabels /\ IdleTok /\ IdleMetrics /\ IdleSteps /\ IdleLoss

\* One column of a split, as the list a batched map or a batch receives.
LabelsOf(rows) == [i \in 1..Len(rows) |-> rows[i].label]
TextsOf(rows)  == [i \in 1..Len(rows) |-> rows[i].text]

\* dataset = dataset.map(convert_labels, batched=True): each split in turn
\* (train, then val) goes through convert_labels in one batch; an exception
\* leaves main and nothing is assigned.
MainConvertLabels ==
  /\ pc = "convert_labels"
  /\ LET t == convert_labels([text |-> TextsOf(dataset.train), label |-> LabelsOf(dataset.train)])
         v == convert_labels([text |-> TextsOf(dataset.val), label |-> LabelsOf(dataset.val)])
         Merge(rows, out) == [i \in 1..Len(rows) |-> [rows[i] EXCEPT !.label = out.value.label[i]]]
     IN IF t.raised # "none" \/ v.raised # "none"
        THEN /\ pc' = "failed"
             /\ run_log' = [run_log EXCEPT !.exception = IF t.raised # "none" THEN t.raised ELSE v.raised]
             /\ UNCHANGED dataset
        ELSE /\ pc' = "tokenize"
             /\ dataset' = [train |-> Merge(dataset.train, t), val |-> Merge(dataset.val, v)]
             /\ UNCHANGED run_log
  /\ UNCHANGED <<trainer, labelVars, tokVars, metricVars, stepsVars, lossVars>>

\* Dataset.shuffle(seed=42): a fixed permutation of the rows (here: reversal).
Shuffle(rows) == [i \in 1..Len(rows) |-> rows[Len(rows) + 1 - i]]

\* dataset = dataset.map(tokenize, batched=True).shuffle(seed=42)
MainTokenize ==
  /\ pc = "tokenize"
  /\ LET Tok(rows) ==
           LET enc == tokenize([text |-> TextsOf(rows), label |-> LabelsOf(rows)])
           IN [i \in 1..Len(rows) |->
                 [text |-> rows[i].text, label |-> rows[i].label,
                  input_ids |-> enc.input_ids[i],
                  attention_mask |-> enc.attention_mask[i]]]
     IN dataset' = [train |-> Shuffle(Tok(dataset.train)), val |-> Shuffle(Tok(dataset.val))]
  /\ run_log' = [run_log EXCEPT !.tokenize_calls = @ + 2]
  /\ pc' = "create_trainer"
  /\ UNCHANGED <<trainer, labelVars, tokVars, metricVars, stepsVars, lossVars>>

\* training_args = TrainingArguments(...); trainer = Trainer(...)
MainCreateTrainer ==
  /\ pc = "create_trainer"
  /\ trainer' = [class               |-> TrainerClass,
                 compute_loss_fn     |-> IF TrainerClass = "TrainerWithCustomLoss"
                                         THEN WeightedCrossEntropy
                                         ELSE UnweightedCrossEntropy,
                 evaluation_strategy |-> evaluation_strategy,
                 save_strategy       |-> save_strategy,
                 num_train_epochs    |-> num_train_epochs,
                 train_batch_size    |-> batch_size,
                 epoch               |-> 0,
                 step                |-> 0,
                 global_step         |-> 0,
                 phase               |-> "created",
                 at_epoch_end        |-> FALSE,
                 should_evaluate     |-> FALSE,
                 should_save         |-> FALSE]
  /\ pc' = "train"
  /\ UNCHANGED <<dataset, run_log, labelVars, tokVars, metricVars, stepsVars, lossVars>>

\* Number of batches the train dataloader yields per epoch.
StepsPerEpoch == (Len(dataset.train) + trainer.train_batch_size - 1) \div trainer.train_batch_size

\* trainer.train(): enter the training loop.
MainTrain ==
  /\ pc = "train"
  /\ trainer.phase = "created"
  /\ trainer' = [trainer EXCEPT !.phase = "step"]
  /\ run_log' = [run_log EXCEPT !.train_calls = @ + 1]
  /\ UNCHANGED <<pc, dataset, labelVars, tokVars, metricVars, stepsVars, lossVars>>

\* The batch of training step k of an epoch, as the inputs mapping.
BatchInputs(k) ==
  LET lo   == (k - 1) * trainer.train_batch_size + 1
      hi   == Min(k * trainer.train_batch_size, Len(dataset.train))
      rows == SubSeq(dataset.train, lo, hi)
  IN [input_ids      |-> [i \in 1..Len(rows) |-> rows[i].input_ids],
      attention_mask |-> [i \in 1..Len(rows) |-> rows[i].attention_mask],
      labels         |-> LabelsOf(rows)]

\* One training step: the loss of the batch through the trainer's
\* compute_loss (the subclass's override, or the model's own loss), the
\* optimizer step, then the step-end callback that raises the flags of the
\* "steps" strategies.
TrainStep ==
  /\ pc = "train"
  /\ trainer.phase = "step"
  /\ trainer.step < StepsPerEpoch
  /\ LET custom == trainer.class = "TrainerWithCustomLoss"
         r      == compute_loss(trainer.compute_loss_fn, BatchInputs(trainer.step + 1), FALSE)
         fn     == IF custom THEN r.out.loss[1] ELSE UnweightedCrossEntropy
         gs     == trainer.global_step + 1
     IN /\ run_log' = [run_log EXCEPT
                         !.custom_loss_calls  = IF custom THEN @ + 1 ELSE @,
                         !.default_loss_calls = IF custom THEN @ ELSE @ + 1,
                         !.loss_weights       = @ \cup {fn.weight}]
        /\ trainer' = [trainer EXCEPT
                         !.step            = @ + 1,
                         !.global_step     = gs,
                         !.phase           = "maybe_evaluate",
                         !.at_epoch_end    = FALSE,
                         !.should_evaluate = (trainer.evaluation_strategy = "steps"
                                              /\ gs % logging_steps = 0),
                         !.should_save     = (trainer.save_strategy = "steps"
                                              /\ gs % save_steps = 0)]
  /\ UNCHANGED <<pc, dataset, labelVars, tokVars, metricVars, stepsVars, lossVars>>

\* The dataloader of the epoch is exhausted: the epoch-end callback raises
\* the flags of the "epoch" strategies.
EpochEnd ==
  /\ pc = "train"
  /\ trainer.phase = "step"
  /\ trainer.step = StepsPerEpoch
  /\ trainer' = [trainer EXCEPT
                   !.phase           = "maybe_evaluate",
                   !.at_epoch_end    = TRUE,
                   !.should_evaluate = (trainer.evaluation_strategy = "epoch"),
                   !.should_save     = (trainer.save_strategy = "epoch")]
  /\ UNCHANGED <<pc, dataset, run_log, labelVars, tokVars, metricVars, stepsVars, lossVars>>

\* When the flag is up: one pass over the val split, whose logits (any the
\* model may produce) and labels go to compute_metrics in a single call.
MaybeEvaluate ==
  /\ pc = "train"
  /\ trainer.phase = "maybe_evaluate"
  /\ IF trainer.should_evaluate
     THEN \E logits \in [1..Len(dataset.val) -> LogitRows] :
            LET r == compute_metrics(<<logits, LabelsOf(dataset.val)>>)
            IN run_log' = [run_log EXCEPT
                             !.evals = Append(@, [epoch       |-> trainer.epoch + 1,
                                                  global_step |-> trainer.global_step]),
                             !.compute_metrics_calls = @ + 1,
                             !.last_metrics = r.out]
     ELSE UNCHANGED run_log
  /\ trainer' = [trainer EXCEPT !.phase = "maybe_save", !.should_evaluate = FALSE]
  /\ UNCHANGED <<pc, dataset, labelVars, tokVars, metricVars, stepsVars, lossVars>>

\* When the flag is up: one checkpoint.  After an epoch end the next epoch
\* starts, or training ends after the last one.
MaybeSave ==
  /\ pc = "train"
  /\ trainer.phase = "maybe_save"
  /\ run_log' = IF trainer.should_save
                THEN [run_log EXCEPT !.saves = Append(@, [epoch       |-> trainer.epoch + 1,
                                                          global_step |-> trainer.global_step])]
                ELSE run_log
  /\ LET done == trainer.at_epoch_end /\ trainer.epoch + 1 >= trainer.num_train_epochs
     IN /\ trainer' = [trainer EXCEPT
                         !.should_save  = FALSE,
                         !.at_epoch_end = FALSE,
                         !.epoch        = IF trainer.at_epoch_end THEN @ + 1 ELSE @,
                         !.step         = IF trainer.at_epoch_end THEN 0 ELSE @,
                         !.phase        = IF done THEN "finished" ELSE "step"]
        /\ pc' = IF done THEN "done" ELSE pc
  /\ UNCHANGED <<dataset, labelVars, tokVars, metricVars, stepsVars, lossVars>>

NextMain ==
  \/ MainConvertLabels
  \/ MainTokenize
  \/ MainCreateTrainer
  \/ MainTrain
  \/ TrainStep
  \/ EpochEnd
  \/ MaybeEvaluate
  \/ MaybeSave

SpecMain == InitMain /\ [][NextMain]_vars

(***************************************************************************)
(* Properties.                                                             *)
(***************************************************************************)

\* C1: on a batch of "True"/"False" labels convert_labels returns a list of
\* the same length and order with "True" -> 1 and "False" -> 0, distinct
\* labels getting distinct integers; the mapping agrees with label2id, and
\* id2label is the inverse of label2id.
C1_LabelMappingBijective ==
  /\ \A s \in DOMAIN label2id : id2label[label2id[s]] = s
  /\ \A i \in DOMAIN id2label : label2id[id2label[i]] = i
  /\ (converted # None /\ \A i \in 1..Len(examples.label) : examples.label[i] \in GoodLabels)
       => /\ converted.raised = "none"
          /\ Len(converted.value.label) = Len(examples.label)
          /\ \A i \in 1..Len(examples.label) :
               /\ examples.label[i] = PyStr("True")  => converted.value.label[i] = 1
               /\ examples.label[i] = PyStr("False") => converted.value.label[i] = 0
               /\ converted.value.label[i] = label2id[examples.label[i].v]
               /\ id2label[converted.value.label[i]] = examples.label[i].v
          /\ \A i, j \in 1..Len(examples.label) :
               examples.label[i] # examples.label[j]
                 => converted.value.label[i] # converted.value.label[j]

C1_Witness ==
  /\ converted # None
  /\ converted.raised = "none"
  /\ Len(examples.label) >= 2
  /\ examples.label[1] = PyStr("True")
  /\ examples.label[2] = PyStr("False")

\* C2: for every text of the batch, whatever its length, tokenize yields
\* input ids and an attention mask of exactly model_max_length entries: a
\* short text is padded ([PAD], mask 0) after its own tokens, a long one is
\* cut so that [CLS], its first words and [SEP] fill the length.
C2_TokenizedLengthIsMax ==
  encoding # None =>
    /\ Len(encoding.input_ids) = Len(texts)
    /\ Len(encoding.attention_mask) = Len(texts)
    /\ \A i \in 1..Len(texts) :
         LET used == Min(Len(texts[i]) + 2, model_max_length)
         IN /\ Len(encoding.input_ids[i]) = model_max_length
            /\ Len(encoding.attention_mask[i]) = model_max_length
            /\ encoding.input_ids[i][1] = CLS
            /\ encoding.input_ids[i][used] = SEP
            /\ \A k \in 1..model_max_length :
                 /\ encoding.attention_mask[i][k] = IF k <= used THEN 1 ELSE 0
                 /\ k > used => encoding.input_ids[i][k] = PAD
                 /\ (1 < k /\ k < used)
                      => encoding.input_ids[i][k] = ConvertTokenToId(texts[i][k - 1])

C2_Witness ==
  /\ encoding # None
  /\ Len(texts) = 2
  /\ Len(texts[1]) > model_max_length
  /\ Len(texts[2]) = 0
  /\ Len(encoding.input_ids[1]) = model_max_length

\* C3: when the numbers of logits rows and labels match, compute_metrics
\* returns a dict whose keys are exactly accuracy, f1, precision, recall.
C3_MetricsKeySet ==
  (metrics_out # None /\ Len(pred_eval[1]) = Len(pred_eval[2]))
    => /\ metrics_out.raised = "none"
       /\ metrics_out.value.py = "dict"
       /\ DOMAIN metrics_out.value.items = {"accuracy", "f1", "precision", "recall"}

C3_Witness ==
  /\ metrics_out # None
  /\ Len(pred_eval[1]) = 2
  /\ Len(pred_eval[2]) = 2
  /\ metrics_out.raised = "none"

\* C4: every value of the dict compute_metrics returns is a single number
\* (dict[str, float]), not a nested mapping.
C4_MetricValuesAreScalars ==
  (metrics_out # None /\ Len(pred_eval[1]) = Len(pred_eval[2]))
    => /\ metrics_out.raised = "none"
       /\ \A k \in DOMAIN metrics_out.value.items : metrics_out.value.items[k].py = "float"

\* C8: every metric.compute call gets the same predictions, the argmax of
\* each logits row (class 0 on a tie), one per label, and the labels as
\* given; the returned scores are those of that prediction vector.
ExpectedPredictions ==
  [i \in 1..Len(pred_eval[1]) |-> IF pred_eval[1][i][2] > pred_eval[1][i][1] THEN 1 ELSE 0]

C8_MetricsScoreArgmax ==
  (metrics_out # None /\ Len(pred_eval[1]) = Len(pred_eval[2]))
    => /\ Len(metric_calls) = 4
       /\ {metric_calls[c].name : c \in 1..Len(metric_calls)} = {"accuracy", "f1", "precision", "recall"}
       /\ \A c \in 1..Len(metric_calls) :
            /\ metric_calls[c].predictions = ExpectedPredictions
            /\ Len(metric_calls[c].predictions) = Len(pred_eval[2])
            /\ metric_calls[c].references = pred_eval[2]
            /\ metrics_out.value.items[metric_calls[c].name].items[metric_calls[c].name]
                 = Score(metric_calls[c].name, ExpectedPredictions, pred_eval[2])

C8_Witness ==
  /\ metrics_out # None
  /\ metrics_out.raised = "none"
  /\ Len(pred_eval[1]) = 2
  /\ pred_eval[1][1][1] = pred_eval[1][1][2]
  /\ pred_eval[1][2][2] > pred_eval[1][2][1]
  /\ metric_calls[1].predictions = <<0, 1>>

\* C9: a compute_loss call on a mapping with "labels" removes that entry and
\* no other from the caller's mapping, calls the model once on what is left,
\* and returns compute_loss_fn(logits, removed labels), paired with the
\* outputs iff return_outputs; without "labels" it raises KeyError, the
\* model is not called and the mapping is untouched.
C9_Step ==
  IF "labels" \in DOMAIN inputs
  THEN /\ DOMAIN inputs' = (DOMAIN inputs) \ {"labels"}
       /\ \A k \in DOMAIN inputs' : inputs'[k] = inputs[k]
       /\ model_calls' = model_calls \o <<inputs'>>
       /\ loss_out'.raised = "none"
       /\ loss_out'.loss = <<WeightedCrossEntropy, <<"model.logits", inputs'>>, inputs["labels"]>>
       /\ loss_out'.kind = IF return_outputs THEN "tuple" ELSE "loss"
       /\ return_outputs => loss_out'.outputs = [logits |-> <<"model.logits", inputs'>>]
       /\ DOMAIN loss_out' = IF return_outputs THEN {"raised", "kind", "loss", "outputs"}
                             ELSE {"raised", "kind", "loss"}
  ELSE /\ loss_out'.raised = "KeyError"
       /\ model_calls' = model_calls
       /\ inputs' = inputs

\* C9: every step of compute_loss has the effect described above.
C9_ComputeLossFrame == [][C9_Step]_vars

C9_Witness ==
  /\ loss_out # None
  /\ loss_out.raised = "none"
  /\ return_outputs = TRUE
  /\ DOMAIN inputs = {"input_ids", "attention_mask"}
  /\ Len(model_calls) = 1

\* C10 (as stated): for n >= 1 lines the result is floor(n * epochs / batch)
\* and equals the number of batches needed to pass over the n examples
\* `epochs` times, a final partial batch counted; for 0 lines the call fails.
CeilDiv(a, b) == (a + b - 1) \div b

C10_MaxStepsCountsPartialBatch ==
  steps_out # None =>
    LET n == train_file.lines
        e == train_file.num_train_epochs
        b == train_file.batch_size
    IN IF n = 0 THEN steps_out.raised = "UnboundLocalError"
       ELSE /\ steps_out.raised = "none"
            /\ steps_out.value = (n * e) \div b
            /\ steps_out.value \in {e * CeilDiv(n, b), CeilDiv(n * e, b)}

\* C10 (amended): for n >= 1 lines the result is floor(n * epochs / batch),
\* the number of complete batches in n * epochs examples: a final partial
\* batch is not counted, so the result never exceeds, and may fall short of,
\* the number of batches a pass over the data needs; for 0 lines the call
\* fails.
C10_MaxStepsIsFloor ==
  steps_out # None =>
    LET n == train_file.lines
        e == train_file.num_train_epochs
        b == train_file.batch_size
    IN IF n = 0 THEN steps_out.raised = "UnboundLocalError"
       ELSE /\ steps_out.raised = "none"
            /\ steps_out.value = (n * e) \div b
            /\ steps_out.value * b <= n * e
            /\ n * e < (steps_out.value + 1) * b
            /\ steps_out.value <= CeilDiv(n * e, b)
            /\ CeilDiv(n * e, b) <= e * CeilDiv(n, b)
            /\ ((n * e) % b # 0) => steps_out.value < CeilDiv(n * e, b)

C10_Witness ==
  /\ steps_out # None
  /\ steps_out.raised = "none"
  /\ train_file.lines = 3
  /\ train_file.num_train_epochs = 3
  /\ train_file.batch_size = 2
  /\ steps_out.value = 4

\* C5: once training has started, the k-th evaluation and the k-th
\* checkpoint happen at the end of epoch k and nowhere else, each evaluation
\* with one compute_metrics call and before the checkpoint of its epoch;
\* both are done when the next epoch begins, none precedes the end of the
\* first epoch, and the run ends with num_train_epochs = 50 of each.
C5_EvalAndSaveOncePerEpoch ==
  (pc \in {"train", "done"} /\ trainer.phase # "created") =>
    LET spe   == CeilDiv(Len(dataset.train), batch_size)
        evals == run_log.evals
        saves == run_log.saves
    IN /\ \A k \in 1..Len(evals) : evals[k].epoch = k /\ evals[k].global_step = k * spe
       /\ \A k \in 1..Len(saves) : saves[k].epoch = k /\ saves[k].global_step = k * spe
       /\ run_log.compute_metrics_calls = Len(evals)
       /\ Len(saves) <= Len(evals)
       /\ Len(evals) <= Len(saves) + 1
       /\ trainer.phase = "step" => (Len(evals) = trainer.epoch /\ Len(saves) = trainer.epoch)
       /\ trainer.global_step < spe => (Len(evals) = 0 /\ Len(saves) = 0)
       /\ pc = "done" => /\ trainer.epoch = 50
                         /\ Len(evals) = 50
                         /\ Len(saves) = 50
                         /\ trainer.global_step = 50 * spe

C5_Witness ==
  /\ pc = "done"
  /\ Len(dataset.train) > batch_size
  /\ Len(run_log.evals) = num_train_epochs
  /\ Len(run_log.saves) = num_train_epochs
  /\ trainer.global_step = 2 * num_train_epochs

\* C6: the trainer main constructs is the default Trainer, compute_loss of
\* TrainerWithCustomLoss is never invoked, and the class weights [1.0, 10.0]
\* are in no loss that is optimized.
C6_CustomLossDormant ==
  /\ pc \in {"train", "done"} => trainer.class = "Trainer"
  /\ run_log.custom_loss_calls = 0
  /\ label_loss_weights \notin run_log.loss_weights
  /\ run_log.loss_weights \subseteq {<<>>}

C6_Witness ==
  /\ pc = "done"
  /\ trainer.class = "Trainer"
  /\ run_log.default_loss_calls = 2 * num_train_epochs
  /\ run_log.loss_weights = {<<>>}

\* C7: a row whose label is not the string "True" or "False" makes the
\* convert_labels map raise KeyError; the run ends there for good, with the
\* dataset as loaded, no tokenize call, no trainer and no train() call.
HasBadLabel(rows) == \E i \in 1..Len(rows) : rows[i].label \notin GoodLabels

C7_FailedRun ==
  pc = "failed" =>
    /\ run_log.exception = "KeyError"
    /\ HasBadLabel(dataset.train) \/ HasBadLabel(dataset.val)
    /\ run_log.tokenize_calls = 0
    /\ run_log.train_calls = 0
    /\ trainer = None
    /\ \A sp \in {"train", "val"} : \A i \in 1..Len(dataset[sp]) :
         DOMAIN dataset[sp][i] = {"text", "label"}

C7_Step ==
  /\ (pc = "convert_labels" /\ (HasBadLabel(dataset.train) \/ HasBadLabel(dataset.val)))
       => (pc' = "failed" /\ run_log'.exception = "KeyError" /\ dataset' = dataset)
  /\ pc = "failed" => UNCHANGED mainVars

\* C7: a failed run is as described in every state, and every run holding a
\* bad label fails at the convert_labels map and stays failed.
C7_BadLabelAbortsMain == [](C7_FailedRun) /\ [][C7_Step]_vars

C7_Witness ==
  /\ pc = "failed"
  /\ run_log.exception = "KeyError"
  /\ dataset.train[1].label = PyInt("0")
  /\ dataset.val[1].label = PyInt("0")
  /\ trainer = None

====
